---- MODULE Spec2Model ----
(***************************************************************************)
(* State-machine model of bbq.py: iBBQ thermometer -> MQTT bridge.         *)
(*                                                                         *)
(* The program is a straight-line script: scan and select a device,        *)
(* connect, run the handshake statements of lines 125-158 one after the    *)
(* other, then loop in waitForNotifications.  The BLE transport (bluepy)   *)
(* and the MQTT client are the environment: the transport may deliver a    *)
(* notification inside any blocking call once the peripheral is connected, *)
(* any call on the peripheral may raise, and the publish sink records the  *)
(* messages handed to mqtt_client.publish.                                 *)
(***************************************************************************)
EXTENDS Integers, Sequences, FiniteSets, TLC

VARIABLES
    pc,          \* position of the script: "scan", "selected", "handshake", "wait", "crashed", "exited"
    ip,          \* index of the next handshake statement (1..Len(Program)), 0 outside the handshake
    devices,     \* find_bbq_hwaddr's local scan result (list of ScanEntry)
    hwid,        \* module global hwid: an address, or None
    gatt,        \* the connected peripheral's attribute table: characteristic UUID -> value handle
    delegate,    \* the peripheral's delegate object
    env,         \* module globals bound by the handshake (variable name -> UUID it refers to)
    ops,         \* operations performed on the peripheral so far, in order
    published,   \* messages handed to mqtt_client.publish, in order
    frame,       \* the last notification delivered, and the delegate that handled it
    frameStart,  \* Len(published) when that notification was delivered
    nNotifs,     \* number of notifications delivered so far
    waitResult,  \* what the last waitForNotifications(1) call did: "never" called,
                 \* "notified" (True), "timeout" (False), or the exception raised out of it
    connected,   \* the peripheral connection is open
    err,         \* exception that ended the script, "none" otherwise
    failedAt     \* where the exception was raised: handshake statement index, WaitLoop, or 0

vars == <<pc, ip, devices, hwid, gatt, delegate, env, ops, published, frame,
          frameStart, nNotifs, waitResult, connected, err, failedAt>>

(***************************************************************************)
(* Bounds of the model.                                                    *)
(***************************************************************************)
MaxDevices == 2      \* devices in one scan result
MaxGroups  == 2      \* 2-byte groups in an enumerated temperature payload
MaxNotifs  == 1      \* notifications delivered in one run

(***************************************************************************)
(* Protocol constants, lines 29-45.                                        *)
(***************************************************************************)
CREDENTIALS_MESSAGE  == <<33, 7, 6, 5, 4, 3, 2, 1, 184, 34, 0, 0, 0, 0, 0>>
REALTIME_DATA_ENABLE == <<11, 1, 0, 0, 0, 0>>
BATTERY_LEVEL        == <<8, 36, 0, 0, 0, 0>>
MAIN_SERVICE         == 65520
CCCD_UUID            == 10498
SETTINGS_RESULTS     == 65521
PAIR_UUID            == 65522
HISTORY_UUID         == 65523
REALTIMEDATA_UUID    == 65524
CMD_UUID             == 65525
ON                   == <<1, 0>>

None == "None"
NoFrame == [src |-> 0, cHandle |-> 0, data |-> <<>>, handler |-> "none"]

Min(a, b) == IF a < b THEN a ELSE b

(***************************************************************************)
(* Pure helpers of DataDelegate.handleNotification.                        *)
(***************************************************************************)
\* Python slice data[i:j] (0-based, clipped to the length of data).
Slice(data, i, j) == SubSeq(data, i + 1, Min(j, Len(data)))

\* int.from_bytes(bs, "little")
RECURSIVE int_from_bytes_little(_)
int_from_bytes_little(bs) ==
    IF bs = <<>> THEN 0 ELSE Head(bs) + 256 * int_from_bytes_little(Tail(bs))

\* Variant of temps: range(0, len(data) - 1, 2), a trailing single byte is
\* not read.
temps_full_groups_only(data) ==
    [k \in 1..(Len(data) \div 2) |->
        data[2 * k - 1] + 256 * data[2 * k]]

\* [int.from_bytes(data[i:i+2], "little") for i in range(0, len(data), 2)]
temps(data) ==
    [k \in 1..((Len(data) + 1) \div 2) |->
        int_from_bytes_little(Slice(data, 2 * (k - 1), 2 * (k - 1) + 2))]

\* Variant of int_truediv: round(a / b) in place of int(a / b).
int_truediv_rounded(a, b) == (2 * a + b) \div (2 * b)

\* int(a / b) for 0 <= a < 2^23 and b > 0.  a / b is the double nearest to the
\* exact quotient q + r/b; doubles below 2^23 are at most 2^-30 apart, so the
\* nearest double can be q + 1 only if (b - r)/b <= 2^-30.  int() then
\* truncates toward zero.
int_truediv(a, b) ==
    LET q == a \div b
        r == a % b
        rounds_to_next == r # 0 /\ (b - r) <= b \div (2 ^ 30)
    IN  IF rounds_to_next THEN q + 1 ELSE q

TempTopic(idx) == [name |-> "bbq/temperature", idx |-> idx]
BattTopic == [name |-> "bbq/battery", idx |-> 0]
Msg(topic, value) == [topic |-> topic, value |-> value]

\* Variant of temp_msgs: drops the sentinel values first and numbers what is
\* left, so a skipped probe shifts the index of the later ones.
RECURSIVE temp_msgs_renumbered(_, _)
temp_msgs_renumbered(ts, idx) ==
    IF ts = <<>> THEN <<>>
    ELSE IF Head(ts) = 65526 THEN temp_msgs_renumbered(Tail(ts), idx)
    ELSE <<[topic |-> [name |-> "bbq/temperature", idx |-> idx + 1],
            value |-> Head(ts) \div 10]>>
         \o temp_msgs_renumbered(Tail(ts), idx + 1)

\* for idx, item in enumerate(temps): if item != 65526: send_mqtt(...)
RECURSIVE temp_msgs(_, _)
temp_msgs(ts, idx) ==
    IF idx >= Len(ts) THEN <<>>
    ELSE (IF ts[idx + 1] # 65526
          THEN <<Msg(TempTopic(idx + 1), int_truediv(ts[idx + 1], 10))>>
          ELSE <<>>)
         \o temp_msgs(ts, idx + 1)

\* Variant of struct_unpack_BHHB: accepts any payload of at least 6 bytes
\* and ignores the rest (struct.unpack_from).
struct_unpack_from_BHHB(data) ==
    IF Len(data) < 6
    THEN [ok |-> FALSE, header |-> 0, current_voltage |-> 0, max_voltage |-> 0, pad |-> 0]
    ELSE [ok |-> TRUE,
          header |-> data[1],
          current_voltage |-> data[2] + 256 * data[3],
          max_voltage |-> data[4] + 256 * data[5],
          pad |-> data[6]]

\* struct.unpack("<BHHB", data): raises struct.error unless len(data) == 6.
struct_unpack_BHHB(data) ==
    IF Len(data) # 6
    THEN [ok |-> FALSE, header |-> 0, current_voltage |-> 0, max_voltage |-> 0, pad |-> 0]
    ELSE [ok |-> TRUE,
          header |-> data[1],
          current_voltage |-> int_from_bytes_little(SubSeq(data, 2, 3)),
          max_voltage |-> int_from_bytes_little(SubSeq(data, 4, 5)),
          pad |-> data[6]]

\* Variant of fallback_max_voltage: the fallback applied to the wrong test.
fallback_max_voltage_inverted(max_voltage) == IF max_voltage # 0 THEN 6580 ELSE max_voltage

\* Line 81: if max_voltage == 0: max_voltage = 6580
fallback_max_voltage(max_voltage) == IF max_voltage = 0 THEN 6580 ELSE max_voltage

\* Variant of batt_branch: 1000 * current_voltage in place of 100 *.
batt_branch_permille(u) ==
    LET max_voltage == fallback_max_voltage(u.max_voltage)
    IN  IF max_voltage = 0
        THEN [msgs |-> <<>>, raised |-> "ZeroDivisionError"]
        ELSE [msgs |-> <<Msg(BattTopic, int_truediv(1000 * u.current_voltage, max_voltage))>>,
              raised |-> "none"]

\* Lines 81-83, after a successful unpack: the division raises
\* ZeroDivisionError on a zero denominator, else one message is published.
batt_branch(u) ==
    LET max_voltage == fallback_max_voltage(u.max_voltage)
    IN  IF max_voltage = 0
        THEN [msgs |-> <<>>, raised |-> "ZeroDivisionError"]
        ELSE [msgs |-> <<Msg(BattTopic, int_truediv(100 * u.current_voltage, max_voltage))>>,
              raised |-> "none"]

\* Variant of handleNotification: every handle other than 37 is taken for
\* the temperature characteristic.
handleNotification_else_temperature(cHandle, data) ==
    IF cHandle # 37
    THEN [msgs |-> temp_msgs(temps(data), 0), raised |-> "none"]
    ELSE LET u == struct_unpack_BHHB(data)
         IN  IF u.ok
             THEN batt_branch(u)
             ELSE [msgs |-> <<>>, raised |-> "struct.error"]

\* DataDelegate.handleNotification(cHandle, data): the messages it publishes
\* and the exception it raises, if any.
handleNotification(cHandle, data) ==
    IF cHandle = 48
    THEN [msgs |-> temp_msgs(temps(data), 0), raised |-> "none"]
    ELSE IF cHandle = 37
    THEN LET u == struct_unpack_BHHB(data)
         IN  IF u.ok
             THEN batt_branch(u)
             ELSE [msgs |-> <<>>, raised |-> "struct.error"]
    ELSE [msgs |-> <<>>, raised |-> "none"]

\* DefaultDelegate.handleNotification (bluepy): does nothing.
defaultHandleNotification(cHandle, data) == [msgs |-> <<>>, raised |-> "none"]

(***************************************************************************)
(* find_bbq_hwaddr, lines 90-108.                                          *)
(***************************************************************************)
\* bbqs[k] = v on a dict
DictSet(d, k, v) == [x \in (DOMAIN d) \cup {k} |-> IF x = k THEN v ELSE d[x]]

\* The inner loop's test, for one device: some (adtype, desc, value) of
\* dev.getScanData() has desc "Complete Local Name" and value "iBBQ".
has_ibbq_name(dev) ==
    \E i \in 1..Len(dev.scanData) :
        /\ dev.scanData[i].desc = "Complete Local Name"
        /\ dev.scanData[i].value = "iBBQ"

\* Variant of collect_bbqs: bbqs.setdefault(dev.rssi, dev), the first device
\* seen with an RSSI keeps its place.
RECURSIVE collect_bbqs_first_wins(_, _)
collect_bbqs_first_wins(devs, bbqs) ==
    IF devs = <<>> THEN bbqs
    ELSE LET dev == Head(devs)
         IN  collect_bbqs_first_wins(Tail(devs),
                IF has_ibbq_name(dev) /\ dev.rssi \notin DOMAIN bbqs
                THEN DictSet(bbqs, dev.rssi, dev) ELSE bbqs)

\* for dev in devices: ... bbqs[dev.rssi] = dev
RECURSIVE collect_bbqs(_, _)
collect_bbqs(devs, bbqs) ==
    IF devs = <<>> THEN bbqs
    ELSE LET dev == Head(devs)
         IN  collect_bbqs(Tail(devs),
                          IF has_ibbq_name(dev) THEN DictSet(bbqs, dev.rssi, dev) ELSE bbqs)

\* Variant of first_sorted_reverse: sorted(keys)[0], the weakest signal.
first_sorted(keys) == CHOOSE k \in keys : \A j \in keys : k <= j

\* sorted(keys, reverse=True)[0]
first_sorted_reverse(keys) == CHOOSE k \in keys : \A j \in keys : j <= k

\* Variant of find_bbq_hwaddr: the test len(bbqs) > 1 in place of > 0.
find_bbq_hwaddr_needs_two(devs) ==
    LET bbqs == collect_bbqs(devs, <<>>)
    IN  IF Cardinality(DOMAIN bbqs) > 1
        THEN bbqs[first_sorted_reverse(DOMAIN bbqs)].addr
        ELSE None

find_bbq_hwaddr(devs) ==
    LET bbqs == collect_bbqs(devs, <<>>)
    IN  IF Cardinality(DOMAIN bbqs) > 0
        THEN bbqs[first_sorted_reverse(DOMAIN bbqs)].addr
        ELSE None

(***************************************************************************)
(* The handshake: the module-level statements of lines 125-158.            *)
(*   op    the bluepy call                                                 *)
(*   on    the variable it is called on                                    *)
(*   uuid  its UUID argument (0: none)                                     *)
(*   bind  the variable the result is assigned to ("": none)               *)
(*   value the bytes written                                               *)
(***************************************************************************)
Stmt(line, op, on, uuid, bind, value, withResponse) ==
    [line |-> line, op |-> op, on |-> on, uuid |-> uuid, bind |-> bind,
     value |-> value, withResponse |-> withResponse]

\* Variant of Program: notifications are switched on (line 149) before the
\* realtime data is enabled (line 140).
ProgramCccdFirst == <<
    Stmt(125, "getServiceByUUID",   "bbq", MAIN_SERVICE, "main_service", <<>>, FALSE),
    Stmt(126, "setDelegate",        "bbq", 0, "", <<>>, FALSE),
    Stmt(129, "getCharacteristics", "main_service", PAIR_UUID, "login_characteristic", <<>>, FALSE),
    Stmt(130, "write",              "login_characteristic", 0, "", CREDENTIALS_MESSAGE, FALSE),
    Stmt(135, "getCharacteristics", "bbq", 0, "bbq_charateristic", <<>>, FALSE),
    Stmt(136, "getDescriptors",     "main_service", 0, "main_descriptors", <<>>, FALSE),
    Stmt(146, "getCharacteristics", "main_service", REALTIMEDATA_UUID, "realtime_characteristic", <<>>, FALSE),
    Stmt(147, "getDescriptors",     "realtime_characteristic", CCCD_UUID, "temperature_cccd", <<>>, FALSE),
    Stmt(149, "write",              "temperature_cccd", 0, "", ON, FALSE),
    Stmt(139, "getCharacteristics", "main_service", CMD_UUID, "settings_characteristic", <<>>, FALSE),
    Stmt(140, "write",              "settings_characteristic", 0, "", REALTIME_DATA_ENABLE, TRUE),
    Stmt(153, "write",              "settings_characteristic", 0, "", BATTERY_LEVEL, TRUE),
    Stmt(156, "getCharacteristics", "main_service", SETTINGS_RESULTS, "settingsresult_characteristic", <<>>, FALSE),
    Stmt(157, "getDescriptors",     "settingsresult_characteristic", CCCD_UUID, "settingsresults_cccd", <<>>, FALSE),
    Stmt(158, "write",              "settingsresults_cccd", 0, "", ON, FALSE) >>

Program == <<
    Stmt(125, "getServiceByUUID",   "bbq", MAIN_SERVICE, "main_service", <<>>, FALSE),
    Stmt(126, "setDelegate",        "bbq", 0, "", <<>>, FALSE),
    Stmt(129, "getCharacteristics", "main_service", PAIR_UUID, "login_characteristic", <<>>, FALSE),
    Stmt(130, "write",              "login_characteristic", 0, "", CREDENTIALS_MESSAGE, FALSE),
    Stmt(135, "getCharacteristics", "bbq", 0, "bbq_charateristic", <<>>, FALSE),
    Stmt(136, "getDescriptors",     "main_service", 0, "main_descriptors", <<>>, FALSE),
    Stmt(139, "getCharacteristics", "main_service", CMD_UUID, "settings_characteristic", <<>>, FALSE),
    Stmt(140, "write",              "settings_characteristic", 0, "", REALTIME_DATA_ENABLE, TRUE),
    Stmt(146, "getCharacteristics", "main_service", REALTIMEDATA_UUID, "realtime_characteristic", <<>>, FALSE),
    Stmt(147, "getDescriptors",     "realtime_characteristic", CCCD_UUID, "temperature_cccd", <<>>, FALSE),
    Stmt(149, "write",              "temperature_cccd", 0, "", ON, FALSE),
    Stmt(153, "write",              "settings_characteristic", 0, "", BATTERY_LEVEL, TRUE),
    Stmt(156, "getCharacteristics", "main_service", SETTINGS_RESULTS, "settingsresult_characteristic", <<>>, FALSE),
    Stmt(157, "getDescriptors",     "settingsresult_characteristic", CCCD_UUID, "settingsresults_cccd", <<>>, FALSE),
    Stmt(158, "write",              "settingsresults_cccd", 0, "", ON, FALSE) >>

\* failedAt value for an exception raised out of the wait loop
WaitLoop == Len(Program) + 1

\* A reference to an attribute of the peripheral: its UUID and the UUID of the
\* attribute it was obtained from (0: the peripheral itself).
Ref(uuid, of) == [uuid |-> uuid, of |-> of]
Unbound == Ref(0, 0)

Globals == {"bbq", "main_service", "login_characteristic", "bbq_charateristic",
            "main_descriptors", "settings_characteristic", "realtime_characteristic",
            "temperature_cccd", "settingsresult_characteristic", "settingsresults_cccd"}

\* The call a statement makes on the peripheral, with the object it is made on
\* resolved through the globals bound so far.
OpOf(s, e) ==
    [op |-> s.op, on |-> e[s.on], uuid |-> s.uuid, value |-> s.value,
     withResponse |-> s.withResponse]

\* The value a statement binds: the attribute with the requested UUID under
\* the object the call is made on.
ResultOf(s, e) == Ref(s.uuid, e[s.on].uuid)

\* The exceptions a statement can raise: every transport call can raise a
\* BTLEException; `[0]` on an empty result raises IndexError.
Raises(s) ==
    IF s.op = "setDelegate" THEN {}
    ELSE IF s.op \in {"getCharacteristics", "getDescriptors"} /\ s.uuid # 0
    THEN {"BTLEException", "IndexError"}
    ELSE {"BTLEException"}

(***************************************************************************)
(* Inputs from the environment.                                            *)
(***************************************************************************)
AddrNames == <<"a1", "a2", "a3", "a4">>
Addrs == {AddrNames[i] : i \in 1..MaxDevices}
Rssis == {-80, -40, -10}
ScanDatas == {<<[desc |-> "Complete Local Name", value |-> "iBBQ"]>>,
              <<[desc |-> "Complete Local Name", value |-> "Other"]>>,
              <<[desc |-> "Short Local Name", value |-> "iBBQ"]>>}
ScanEntries == [addr : Addrs, rssi : Rssis, scanData : ScanDatas]

\* Scan results: lists of at most MaxDevices devices with distinct addresses.
ScanResults ==
    UNION {{ds \in [1..n -> ScanEntries] :
               \A i, j \in 1..n : i # j => ds[i].addr # ds[j].addr} :
           n \in 0..MaxDevices}

\* Attribute tables of the peripheral: the handles the source was written
\* against (comment of line 66), and those of a unit that numbers them differently.
NotifyingChars == {SETTINGS_RESULTS, HISTORY_UUID, REALTIMEDATA_UUID}
NoGatt == [u \in NotifyingChars |-> 0]
GattTables ==
    {[u \in NotifyingChars |->
        IF u = REALTIMEDATA_UUID THEN 48 ELSE IF u = SETTINGS_RESULTS THEN 37 ELSE 43],
     [u \in NotifyingChars |->
        IF u = REALTIMEDATA_UUID THEN 52 ELSE IF u = SETTINGS_RESULTS THEN 41 ELSE 47]}

\* Little-endian encoding of a 16-bit value, as the device sends it.
LE16(v) == <<v % 256, v \div 256>>

RECURSIVE EncodeGroups(_)
EncodeGroups(g) == IF g = <<>> THEN <<>> ELSE LE16(Head(g)) \o EncodeGroups(Tail(g))

RawValues == {100, 65526}
\* A full 16-byte frame (8 probe slots).
LongGroups == <<100, 65526, 246, 0, 65535, 65526, 65270, 9>>
TempPayloads ==
    {EncodeGroups(g) : g \in UNION {[1..n -> RawValues] : n \in 0..MaxGroups}}
    \cup {EncodeGroups(LongGroups)}

Voltages == {0, 3000, 4000, 65535}
BattFrame(c, m) == <<36>> \o LE16(c) \o LE16(m) \o <<0>>
BattPayloads == {BattFrame(c, m) : c \in Voltages, m \in Voltages}
\* Battery frames one byte short and one byte long.
BadBattPayloads == {SubSeq(BattFrame(3000, 4000), 1, 5), BattFrame(3000, 4000) \o <<0>>}

Payloads == TempPayloads \cup BattPayloads \cup BadBattPayloads

(***************************************************************************)
(* The script.                                                             *)
(***************************************************************************)
Init ==
    /\ pc = "scan"
    /\ ip = 0
    /\ devices = <<>>
    /\ hwid = None
    /\ gatt = NoGatt
    /\ delegate = "none"
    /\ env = [g \in Globals |-> Unbound]
    /\ ops = <<>>
    /\ published = <<>>
    /\ frame = NoFrame
    /\ frameStart = 0
    /\ nNotifs = 0
    /\ waitResult = "never"
    /\ connected = FALSE
    /\ err = "none"
    /\ failedAt = 0

\* Variant of Uncaught: the exception is caught, recorded and the script
\* goes on with the next statement.
Swallowed(e, at) ==
    /\ pc' = IF pc = "handshake" /\ ip = Len(Program) THEN "wait" ELSE pc
    /\ ip' = IF pc = "handshake" /\ ip < Len(Program) THEN ip + 1 ELSE 0
    /\ err' = e
    /\ failedAt' = at

\* An exception that no handler encloses: the interpreter prints the
\* traceback and the script ends where it was.
Uncaught(e, at) ==
    /\ pc' = "crashed"
    /\ err' = e
    /\ failedAt' = at
    /\ ip' = ip

\* Line 117: hwid = find_bbq_hwaddr(), on the scan result the transport returns.
Scan ==
    /\ pc = "scan"
    /\ \E ds \in ScanResults :
          /\ devices' = ds
          /\ hwid' = find_bbq_hwaddr(ds)
    /\ pc' = "selected"
    /\ UNCHANGED <<ip, gatt, delegate, env, ops, published, frame, frameStart,
                   nNotifs, waitResult, connected, err, failedAt>>

\* Lines 118-119: bbq = Peripheral(hwid).
Connect ==
    /\ pc = "selected"
    /\ hwid # None
    /\ \E t \in GattTables : gatt' = t
    /\ pc' = "handshake"
    /\ ip' = 1
    /\ devices' = <<>>
    /\ delegate' = "DefaultDelegate"
    /\ env' = [env EXCEPT !["bbq"] = Ref(0, 0)]
    /\ connected' = TRUE
    /\ UNCHANGED <<hwid, ops, published, frame, frameStart, nNotifs, waitResult,
                   err, failedAt>>

\* Lines 118-119: Peripheral(hwid) raises.
ConnectFail ==
    /\ pc = "selected"
    /\ hwid # None
    /\ Uncaught("BTLEException", 0)
    /\ devices' = <<>>
    /\ UNCHANGED <<hwid, gatt, delegate, env, ops, published, frame, frameStart,
                   nNotifs, waitResult, connected>>

\* Variant of NoDevice: the missing device is only logged and the script
\* goes on to Peripheral(hwid) and the handshake.
NoDeviceGoesOn ==
    /\ pc = "selected"
    /\ hwid = None
    /\ \E t \in GattTables : gatt' = t
    /\ pc' = "handshake"
    /\ ip' = 1
    /\ devices' = <<>>
    /\ delegate' = "DefaultDelegate"
    /\ connected' = TRUE
    /\ UNCHANGED <<hwid, env, ops, published, frame, frameStart, nNotifs, waitResult,
                   err, failedAt>>

\* Lines 120-122: no device, raise NameError.
NoDevice ==
    /\ pc = "selected"
    /\ hwid = None
    /\ Uncaught("NameError", 0)
    /\ devices' = <<>>
    /\ UNCHANGED <<hwid, gatt, delegate, env, ops, published, frame, frameStart,
                   nNotifs, waitResult, connected>>

\* One statement of lines 125-158 completes.
HandshakeStep ==
    /\ pc = "handshake"
    /\ LET s == Program[ip]
       IN  /\ ops' = Append(ops, OpOf(s, env))
           /\ env' = IF s.bind # "" THEN [env EXCEPT ![s.bind] = ResultOf(s, env)] ELSE env
           /\ delegate' = IF s.op = "setDelegate" THEN "DataDelegate" ELSE delegate
    /\ IF ip = Len(Program)
       THEN pc' = "wait" /\ ip' = 0
       ELSE pc' = pc /\ ip' = ip + 1
    /\ UNCHANGED <<devices, hwid, gatt, published, frame, frameStart, nNotifs,
                   waitResult, connected, err, failedAt>>

\* One statement of lines 125-158 raises.
HandshakeFail ==
    /\ pc = "handshake"
    /\ \E e \in Raises(Program[ip]) : Uncaught(e, ip)
    /\ UNCHANGED <<devices, hwid, gatt, delegate, env, ops, published, frame,
                   frameStart, nNotifs, waitResult, connected>>

\* The delegate's handler for a notification.
Dispatch(cHandle, data) ==
    IF delegate = "DataDelegate" THEN handleNotification(cHandle, data)
    ELSE defaultHandleNotification(cHandle, data)

\* The effect of one handler call, common to the handshake and the wait loop:
\* send_mqtt appends each message to the sink.
Deliver(src, data, r) ==
    /\ nNotifs < MaxNotifs
    /\ frame' = [src |-> src, cHandle |-> gatt[src], data |-> data, handler |-> delegate]
    /\ frameStart' = Len(published)
    /\ nNotifs' = nNotifs + 1
    /\ published' = published \o r.msgs

\* The transport delivers a notification while a handshake call waits for its
\* response (bluepy dispatches notifications inside every blocking call).
HandshakeNotify ==
    /\ pc = "handshake"
    /\ Program[ip].op # "setDelegate"
    /\ \E src \in NotifyingChars, data \in Payloads :
          LET r == Dispatch(gatt[src], data)
          IN  /\ Deliver(src, data, r)
              /\ IF r.raised # "none"
                 THEN Uncaught(r.raised, ip)
                 ELSE UNCHANGED <<pc, ip, err, failedAt>>
    /\ UNCHANGED <<devices, hwid, gatt, delegate, env, ops, waitResult, connected>>

\* Variant of WaitLoopExcept: ctrl-c is logged and the loop goes on.
WaitLoopExceptIgnoresInterrupt(e) ==
    /\ waitResult' = e
    /\ IF e = "KeyboardInterrupt"
       THEN UNCHANGED <<pc, ip, err, failedAt, connected, ops>>
       ELSE IF e = "BTLEDisconnectError"
       THEN /\ pc' = "exited"
            /\ connected' = FALSE
            /\ UNCHANGED <<ip, err, failedAt, ops>>
       ELSE /\ pc' = "crashed" /\ err' = e /\ failedAt' = Len(Program) + 1 /\ ip' = ip
            /\ UNCHANGED <<connected, ops>>

\* Variant of WaitLoopExcept: a lost connection starts the handshake again.
WaitLoopExceptReconnects(e) ==
    /\ waitResult' = e
    /\ IF e = "KeyboardInterrupt"
       THEN /\ pc' = "exited"
            /\ connected' = FALSE
            /\ ops' = Append(ops, [op |-> "disconnect", on |-> env["bbq"], uuid |-> 0,
                                   value |-> <<>>, withResponse |-> FALSE])
            /\ UNCHANGED <<ip, err, failedAt>>
       ELSE IF e = "BTLEDisconnectError"
       THEN /\ pc' = "handshake"
            /\ ip' = 1
            /\ UNCHANGED <<connected, err, failedAt, ops>>
       ELSE /\ pc' = "crashed" /\ err' = e /\ failedAt' = Len(Program) + 1 /\ ip' = ip
            /\ UNCHANGED <<connected, ops>>

\* Lines 161-169: an exception raised out of waitForNotifications, and the
\* handlers around the wait loop.
WaitLoopExcept(e) ==
    /\ waitResult' = e
    /\ IF e = "KeyboardInterrupt"
       THEN /\ pc' = "exited"
            /\ connected' = FALSE             \* bbq.disconnect()
            /\ ops' = Append(ops, [op |-> "disconnect", on |-> env["bbq"], uuid |-> 0,
                                   value |-> <<>>, withResponse |-> FALSE])
            /\ UNCHANGED <<ip, err, failedAt>>
       ELSE IF e = "BTLEDisconnectError"
       THEN /\ pc' = "exited"
            /\ connected' = FALSE
            /\ UNCHANGED <<ip, err, failedAt, ops>>
       ELSE /\ Uncaught(e, WaitLoop)
            /\ UNCHANGED <<connected, ops>>

\* Line 163: waitForNotifications(1) delivers a notification to the delegate;
\* it returns True, or the handler's exception propagates out of the loop.
WaitNotify ==
    /\ pc = "wait"
    /\ \E src \in NotifyingChars, data \in Payloads :
          LET r == Dispatch(gatt[src], data)
          IN  /\ Deliver(src, data, r)
              /\ IF r.raised # "none"
                 THEN WaitLoopExcept(r.raised)
                 ELSE /\ waitResult' = "notified"
                      /\ UNCHANGED <<pc, ip, err, failedAt, connected, ops>>
    /\ UNCHANGED <<devices, hwid, gatt, delegate, env>>

\* Variant of WaitTimeout: the loop is left when the wait returns False.
WaitTimeoutLeavesLoop ==
    /\ pc = "wait"
    /\ waitResult' = "timeout"
    /\ pc' = "exited"
    /\ UNCHANGED <<ip, devices, hwid, gatt, delegate, env, ops, published,
                   frame, frameStart, nNotifs, connected, err, failedAt>>

\* Line 163: waitForNotifications(1) times out and returns False.
WaitTimeout ==
    /\ pc = "wait"
    /\ waitResult' = "timeout"
    /\ UNCHANGED <<pc, ip, devices, hwid, gatt, delegate, env, ops, published,
                   frame, frameStart, nNotifs, connected, err, failedAt>>

\* Lines 165-167: ctrl-c during the wait loop.
WaitInterrupt ==
    /\ pc = "wait"
    /\ WaitLoopExcept("KeyboardInterrupt")
    /\ UNCHANGED <<devices, hwid, gatt, delegate, env, published, frame,
                   frameStart, nNotifs>>

\* Lines 168-169: the peripheral goes away during the wait loop.
WaitDisconnect ==
    /\ pc = "wait"
    /\ WaitLoopExcept("BTLEDisconnectError")
    /\ UNCHANGED <<devices, hwid, gatt, delegate, env, published, frame,
                   frameStart, nNotifs>>

Next ==
    \/ Scan
    \/ Connect
    \/ ConnectFail
    \/ NoDevice
    \/ HandshakeStep
    \/ HandshakeFail
    \/ HandshakeNotify
    \/ WaitNotify
    \/ WaitTimeout
    \/ WaitInterrupt
    \/ WaitDisconnect

Spec == Init /\ [][Next]_vars

(***************************************************************************)
(* Properties.                                                             *)
(***************************************************************************)
\* What the last delivered notification published.
LastPub == SubSeq(published, frameStart + 1, Len(published))

\* The last notification was handled by DataDelegate with this handle.
RoutedTo(h) == nNotifs > 0 /\ frame.handler = "DataDelegate" /\ frame.cHandle = h

\* The unsigned 16-bit value of the 2-byte group at position p (from 0).
GroupAt(data, p) == data[2 * p + 1] + 256 * data[2 * p + 2]
\* Positions of the groups of an even-length payload that are not the sentinel.
ConnectedPositions(data) ==
    {p \in 0..((Len(data) \div 2) - 1) : GroupAt(data, p) # 65526}

\* C1: for a temperature notification with an even-length payload of at most
\* 16 bytes, the router publishes exactly one bbq/temperature message per
\* 2-byte group whose value is not 65526, in payload order, and the probe
\* index of each message is its group's position + 1.
C1_OneMessagePerConnectedProbe ==
    (RoutedTo(48) /\ Len(frame.data) % 2 = 0 /\ Len(frame.data) <= 16) =>
        /\ Len(LastPub) = Cardinality(ConnectedPositions(frame.data))
        /\ \A i \in 1..Len(LastPub) :
              /\ LastPub[i].topic.name = "bbq/temperature"
              /\ (LastPub[i].topic.idx - 1) \in ConnectedPositions(frame.data)
        /\ \A i, j \in 1..Len(LastPub) :
              i < j => LastPub[i].topic.idx < LastPub[j].topic.idx

\* A 16-byte frame with probes 2 and 6 not connected was routed: six
\* messages, the second of them for probe 3.
C1_Witness ==
    /\ RoutedTo(48)
    /\ Len(frame.data) = 16
    /\ GroupAt(frame.data, 1) = 65526
    /\ Len(LastPub) = 6
    /\ LastPub[2].topic.idx = 3

\* C2: for every connected probe at position p of a temperature frame, with
\* raw value r, the value published to bbq/temperature/{p+1} is r div 10.
C2_PublishedIsRawDiv10 ==
    (RoutedTo(48) /\ Len(frame.data) % 2 = 0) =>
        \A p \in ConnectedPositions(frame.data) :
            \E i \in 1..Len(LastPub) :
                /\ LastPub[i].topic = [name |-> "bbq/temperature", idx |-> p + 1]
                /\ 10 * LastPub[i].value <= GroupAt(frame.data, p)
                /\ GroupAt(frame.data, p) < 10 * (LastPub[i].value + 1)

\* A 16-byte frame was routed with raw 100 at position 0, published as 10 to
\* probe 1, and raw 65535 at position 4, published as 6553 to probe 5.
C2_Witness ==
    /\ RoutedTo(48)
    /\ Len(frame.data) = 16
    /\ GroupAt(frame.data, 0) = 100
    /\ GroupAt(frame.data, 4) = 65535
    /\ LastPub[1] = [topic |-> [name |-> "bbq/temperature", idx |-> 1], value |-> 10]
    /\ LastPub[4] = [topic |-> [name |-> "bbq/temperature", idx |-> 5], value |-> 6553]

\* C3: for a 6-byte battery payload with current voltage c and max voltage m,
\* exactly floor(100*c/d) is published to bbq/battery, d = 6580 if m = 0 and
\* d = m otherwise, and no ZeroDivisionError is raised; c = 3000, m = 0 gives
\* 45 and c = m = 4000 gives 100.
C3_BatteryPercent ==
    /\ err # "ZeroDivisionError"
    /\ (RoutedTo(37) /\ Len(frame.data) = 6) =>
          LET c == frame.data[2] + 256 * frame.data[3]
              m == frame.data[4] + 256 * frame.data[5]
              d == IF m = 0 THEN 6580 ELSE m
          IN  /\ Len(LastPub) = 1
              /\ LastPub[1].topic = [name |-> "bbq/battery", idx |-> 0]
              /\ LastPub[1].value * d <= 100 * c
              /\ 100 * c < (LastPub[1].value + 1) * d
              /\ (c = 3000 /\ m = 0) => LastPub[1].value = 45
              /\ (c = 4000 /\ m = 4000) => LastPub[1].value = 100

\* The frame with c = 3000 and m = 0 was routed and 45 was published.
C3_Witness ==
    /\ RoutedTo(37)
    /\ frame.data = <<36, 184, 11, 0, 0, 0>>
    /\ LastPub = <<[topic |-> [name |-> "bbq/battery", idx |-> 0], value |-> 45]>>

\* C4: a battery notification whose payload is not exactly 6 bytes long fails
\* decoding (struct.error) and publishes nothing.
C4_BadBatteryLengthPublishesNothing ==
    (RoutedTo(37) /\ Len(frame.data) # 6) =>
        /\ LastPub = <<>>
        /\ err = "struct.error"

\* A 7-byte battery frame was routed and nothing was published.
C4_Witness ==
    /\ RoutedTo(37)
    /\ Len(frame.data) = 7
    /\ published = <<>>
    /\ err = "struct.error"

\* C5: a decode failure on a notification never terminates the notification
\* loop: the script is not ended by a struct.error raised out of the wait loop.
C5_DecodeFailureAbsorbed ==
    ~(pc = "crashed" /\ failedAt = WaitLoop /\ err = "struct.error")

\* The names a device advertises (its Complete Local Name entries).
AdvertisedNames(dev) ==
    {dev.scanData[i].value :
        i \in {k \in 1..Len(dev.scanData) : dev.scanData[k].desc = "Complete Local Name"}}
\* The devices of the scan result that are named "iBBQ".
IBBQs == {i \in 1..Len(devices) : "iBBQ" \in AdvertisedNames(devices[i])}

\* C6: the address device selection returns belongs to a device of the scan
\* result that is named "iBBQ" and whose RSSI is at least that of every other
\* device named "iBBQ"; a device with another name is never selected.
C6_SelectsStrongestIBBQ ==
    (pc = "selected" /\ hwid # None) =>
        \E i \in IBBQs :
            /\ devices[i].addr = hwid
            /\ \A j \in IBBQs : devices[j].rssi <= devices[i].rssi

\* Two "iBBQ" devices at -80 and -40 were found, in that order: the address
\* of the second one was selected.
C6_Witness ==
    /\ pc = "selected"
    /\ Len(devices) = 2
    /\ IBBQs = {1, 2}
    /\ devices[1].rssi = -80
    /\ devices[2].rssi = -40
    /\ hwid = devices[2].addr

\* C7: device selection returns None, without raising, when the scan result
\* is empty or has no device named "iBBQ", and an address when it has one.
C7_NoneIffNoIBBQ ==
    (pc = "selected") =>
        /\ err = "none"
        /\ (IBBQs = {}) <=> (hwid = None)

\* A scan result of two devices, neither with the complete local name
\* "iBBQ", gave None.
C7_Witness ==
    /\ pc = "selected"
    /\ Len(devices) = 2
    /\ IBBQs = {}
    /\ hwid = None

\* The handshake step (1..7) an operation on the peripheral is; 0 for an
\* operation that is none of them (resolving one characteristic or
\* descriptor, setDelegate, disconnect) and 8 for any other write.
StepOf(o) ==
    IF o.op = "getServiceByUUID" /\ o.uuid = MAIN_SERVICE THEN 1
    ELSE IF o.op \in {"getCharacteristics", "getDescriptors"} /\ o.uuid = 0 THEN 3
    ELSE IF o.op # "write" THEN 0
    ELSE IF o.on = [uuid |-> PAIR_UUID, of |-> MAIN_SERVICE]
            /\ o.value = <<33, 7, 6, 5, 4, 3, 2, 1, 184, 34, 0, 0, 0, 0, 0>> THEN 2
    ELSE IF o.on = [uuid |-> CMD_UUID, of |-> MAIN_SERVICE]
            /\ o.value = <<11, 1, 0, 0, 0, 0>> THEN 4
    ELSE IF o.on = [uuid |-> CCCD_UUID, of |-> REALTIMEDATA_UUID]
            /\ o.value = <<1, 0>> THEN 5
    ELSE IF o.on = [uuid |-> CMD_UUID, of |-> MAIN_SERVICE]
            /\ o.value = <<8, 36, 0, 0, 0, 0>> THEN 6
    ELSE IF o.on = [uuid |-> CCCD_UUID, of |-> SETTINGS_RESULTS]
            /\ o.value = <<1, 0>> THEN 7
    ELSE 8

\* The handshake steps performed so far, in order; the calls of the
\* enumeration (step 3) count as one step while they follow each other.
RECURSIVE StepsOf(_)
StepsOf(os) ==
    IF os = <<>> THEN <<>>
    ELSE LET rest == StepsOf(SubSeq(os, 1, Len(os) - 1))
             n == StepOf(os[Len(os)])
         IN  IF n = 0 \/ (n = 3 /\ rest # <<>> /\ rest[Len(rest)] = 3)
             THEN rest
             ELSE Append(rest, n)

\* C8: the handshake operations occur in the fixed order 1..7 (service,
\* credentials, enumeration, enable realtime data, temperature CCCD, battery
\* query, settings-results CCCD), none repeated or reordered, and all seven
\* have been performed when the wait loop is entered.
C8_HandshakeOrder ==
    LET steps == StepsOf(ops)
    IN  /\ Len(steps) <= 7
        /\ \A i \in 1..Len(steps) : steps[i] = i
        /\ pc \in {"wait", "exited"} => Len(steps) = 7

\* The wait loop was entered after the seven steps.
C8_Witness ==
    /\ pc = "wait"
    /\ StepsOf(ops) = <<1, 2, 3, 4, 5, 6, 7>>

\* C9: when a handshake statement fails, the script ends there with the
\* exception: no later statement has been executed, the wait loop was never
\* entered, and the exception is reported.
C9_FailedStepAborts ==
    (failedAt \in 1..Len(Program)) =>
        /\ pc = "crashed"
        /\ err # "none"
        /\ ip = failedAt
        /\ Len(ops) = failedAt - 1
        /\ waitResult = "never"

\* The credentials write failed: three operations were done, no more.
C9_Witness ==
    /\ failedAt = 4
    /\ err = "BTLEException"
    /\ pc = "crashed"
    /\ Len(ops) = 3
    /\ StepsOf(ops) = <<1>>

\* C10: a notification whose handle is neither 48 nor 37 publishes nothing
\* and changes nothing else of the script's state, whatever its payload.
C10_UnknownHandleNoEffect ==
    [][(nNotifs' = nNotifs + 1 /\ frame'.handler = "DataDelegate"
            /\ frame'.cHandle \notin {48, 37})
        => UNCHANGED <<published, pc, ip, err, failedAt, ops, env, delegate,
                       connected, hwid, gatt, devices>>]_vars

\* A 5-byte payload from an unknown handle was delivered in the wait loop:
\* nothing published, the loop goes on.
C10_Witness ==
    /\ nNotifs > 0
    /\ frame.handler = "DataDelegate"
    /\ frame.cHandle \notin {48, 37}
    /\ Len(frame.data) = 5
    /\ published = <<>>
    /\ waitResult = "notified"
    /\ pc = "wait"

\* C11: a notification delivered before the handshake statements have all
\* completed publishes no reading and does not end the script.
C11_NothingPublishedBeforeHandshakeDone ==
    [][(pc = "handshake" /\ nNotifs' = nNotifs + 1)
        => (published' = published /\ pc' = "handshake")]_vars

\* C12: a notification from the realtime-data characteristic (0xFFF4) is
\* decoded as temperature and one from the settings-results characteristic
\* (0xFFF1) as battery, whatever handles they have on the peripheral.
C12_DispatchByResolvedCharacteristic ==
    (nNotifs > 0 /\ frame.handler = "DataDelegate") =>
        /\ (frame.src = REALTIMEDATA_UUID /\ Len(frame.data) % 2 = 0)
              => Len(LastPub) = Cardinality(ConnectedPositions(frame.data))
        /\ (frame.src = SETTINGS_RESULTS /\ Len(frame.data) = 6)
              => (Len(LastPub) = 1 /\ LastPub[1].topic.name = "bbq/battery")

\* C13 as stated: every value published to bbq/battery is in 0..100.
C13_BatteryPercentWithin0To100 ==
    \A i \in 1..Len(published) :
        published[i].topic.name = "bbq/battery" => published[i].value \in 0..100

\* C13, amended: every value published to bbq/battery is a non-negative
\* integer, and it is in 0..100 whenever the current voltage does not exceed
\* the denominator (the max voltage, or 6580 when the max voltage is 0).
C13_BatteryPercentBounded ==
    (RoutedTo(37) /\ Len(frame.data) = 6) =>
        LET c == frame.data[2] + 256 * frame.data[3]
            m == frame.data[4] + 256 * frame.data[5]
            d == IF m = 0 THEN 6580 ELSE m
        IN  \A i \in 1..Len(LastPub) :
                LastPub[i].topic.name = "bbq/battery" =>
                    /\ LastPub[i].value >= 0
                    /\ c <= d => LastPub[i].value \in 0..100

\* The frame with c = 3000 and m = 4000 was routed and 75 was published.
C13_Witness ==
    /\ RoutedTo(37)
    /\ frame.data = <<36, 184, 11, 160, 15, 0>>
    /\ LastPub = <<[topic |-> [name |-> "bbq/battery", idx |-> 0], value |-> 75]>>

\* C14: when ctrl-c arrives during the wait loop, the loop exits, disconnect
\* is called on the peripheral and the script ends; no notification is
\* processed after the interrupt.
C14_InterruptDisconnectsAndEnds ==
    /\ [](waitResult = "KeyboardInterrupt" =>
            /\ pc = "exited"
            /\ err = "none"
            /\ ~connected
            /\ ops # <<>>
            /\ ops[Len(ops)].op = "disconnect")
    /\ [][waitResult = "KeyboardInterrupt" =>
            UNCHANGED <<nNotifs, frame, published, ops, pc>>]_vars

\* Ctrl-c arrived after a reading had been published from the wait loop.
C14_Witness ==
    /\ waitResult = "KeyboardInterrupt"
    /\ pc = "exited"
    /\ ~connected
    /\ nNotifs > 0
    /\ published # <<>>
    /\ ops[Len(ops)].op = "disconnect"

\* C15: a disconnection during the wait loop is not handled as a
\* notification: it publishes nothing and delivers no frame, ends the loop,
\* and ends the session (no reconnect, no further operation on the
\* peripheral, no further notification).
C15_DisconnectIsTerminal ==
    /\ [](waitResult = "BTLEDisconnectError" =>
            /\ pc = "exited"
            /\ err = "none"
            /\ ~connected)
    /\ [][(waitResult' = "BTLEDisconnectError" \/ waitResult = "BTLEDisconnectError")
            => UNCHANGED <<nNotifs, frame, published, ops>>]_vars

\* The peripheral went away after the wait loop had timed out at least once
\* or been notified; the 15 handshake operations are all that was done.
C15_Witness ==
    /\ waitResult = "BTLEDisconnectError"
    /\ pc = "exited"
    /\ ~connected
    /\ Len(ops) = Len(Program)
    /\ nNotifs > 0

\* C16: when device selection finds no "iBBQ" device, the script reports it
\* (NameError) and ends without connecting to a peripheral, operating on one
\* or publishing anything.
C16_NoDeviceEndsScript ==
    /\ [](err = "NameError" =>
            /\ pc = "crashed"
            /\ hwid = None
            /\ ~connected
            /\ gatt = NoGatt
            /\ ops = <<>>
            /\ published = <<>>
            /\ nNotifs = 0)
    /\ [][(pc = "selected" /\ hwid = None) =>
            (pc' = "crashed" /\ err' = "NameError")]_vars

\* The script ended with NameError after a scan that found nothing.
C16_Witness ==
    /\ err = "NameError"
    /\ pc = "crashed"
    /\ hwid = None
    /\ ~connected
    /\ ops = <<>>
    /\ published = <<>>

\* The "iBBQ" devices of the scan result with the highest RSSI among them.
StrongestIBBQs ==
    {i \in IBBQs : \A j \in IBBQs : devices[j].rssi <= devices[i].rssi}

\* C17: when several "iBBQ" devices share the highest RSSI, device selection
\* returns the address of the one that comes last in the scan result.
C17_TieGoesToLastSeen ==
    (pc = "selected" /\ StrongestIBBQs # {}) =>
        \E i \in StrongestIBBQs :
            /\ \A j \in StrongestIBBQs : j <= i
            /\ hwid = devices[i].addr

\* Two "iBBQ" devices with the same RSSI: the second one was selected.
C17_Witness ==
    /\ pc = "selected"
    /\ StrongestIBBQs = {1, 2}
    /\ hwid = devices[2].addr

\* The exceptions handleNotification can raise.
HandlerExceptions == {"struct.error", "ZeroDivisionError"}

\* C18: a temperature notification never fails on the shape of its payload:
\* an empty payload publishes nothing, and the last byte b of an odd-length
\* payload is published as b div 10 for the probe after the full groups.
C18_OddAndEmptyTemperaturePayloads ==
    RoutedTo(48) =>
        /\ err \notin HandlerExceptions
        /\ frame.data = <<>> => LastPub = <<>>
        /\ Len(frame.data) % 2 = 1 =>
              LET b == frame.data[Len(frame.data)]
                  last == LastPub[Len(LastPub)]
              IN  /\ LastPub # <<>>
                  /\ last.topic = [name |-> "bbq/temperature",
                                   idx |-> (Len(frame.data) - 1) \div 2 + 1]
                  /\ 10 * last.value <= b
                  /\ b < 10 * (last.value + 1)

\* A 5-byte payload ending in byte 15 was routed as temperature: its last
\* message is 1 for probe 3.
C18_Witness ==
    /\ RoutedTo(48)
    /\ Len(frame.data) = 5
    /\ frame.data[5] = 15
    /\ LastPub[Len(LastPub)] = [topic |-> [name |-> "bbq/temperature", idx |-> 3],
                                value |-> 1]
    /\ err = "none"

====
